---- MODULE Spec2Model ----
\* MySmartCart price-catalog ingestion pipeline: the three collectors
\* (Yohananof fetch collector, Shufersal collector, Yohananof curl collector),
\* the Yohananof catalog decoder and the daily aggregator, over the shared
\* raw_files ledger, the raw-prices bucket, the prices table and the
\* product_stats_daily table.
EXTENDS Integers, Sequences, FiniteSets, TLC

\* ------------------------------------------------------------------ bounds
MaxRuns == 4        \* collector and decoder runs started in one behaviour
MaxFaults == 1      \* database / storage / transport faults the environment injects
MaxNow == 3         \* last clock tick (TicksPerDay ticks make a calendar day)
MaxLen == 4         \* longest label handed to normalizeCanonical on its own
MaxItems == 2       \* most items of a catalog drawn from an item pool
BATCH == 2          \* rows per prices upsert; the source's 500 scaled to the catalogs below

TicksPerDay == 2
WindowDays == 2

\* ------------------------------------------------------------ optional values
\* A nullable value is <<>> (null) or <<v>>.
None == <<>>
Some(v) == <<v>>
IsSome(o) == o # <<>>
Get(o) == o[1]

NULL == "NULL"      \* null of the string-valued columns (sha256, error)

\* ------------------------------------------------------------------ chains
CHAIN_FETCH == "yochananof"     \* CHAIN of the fetch-based Yohananof collector
CHAIN_SHUFERSAL == "shufersal"  \* CHAIN of the Shufersal collector
CHAIN_CURL == "yohananof"       \* chain literal of the curl-based Yohananof collector
CHAIN == "yohananof"            \* CHAIN of the decoder

\* ---------------------------------------------------------------- filenames
\* A file name is <lead><kind><chainDigits>-[<sub>-]<store>-<stamp>.gz ;
\* digit strings are sequences of digits, stamp is the shape of the timestamp.
Fn(lead, kind, sub, store, stamp) ==
    [lead |-> lead, kind |-> kind, sub |-> sub, store |-> store, stamp |-> stamp]

FnY009 == Fn("", "PriceFull", <<>>, <<0, 0, 9>>, "d12")       \* PriceFull7290803800003-009-202601140501.gz
FnY16 == Fn("", "PriceFull", <<>>, <<1, 6>>, "d12")           \* PriceFull7290803800003-16-202601140010.gz
FnYLead == Fn("x", "PriceFull", <<>>, <<2, 0>>, "d12")        \* xPriceFull7290803800003-20-202601140446.gz
FnS001 == Fn("", "PriceFull", <<>>, <<0, 0, 1>>, "d12")       \* PriceFull7290027600007-001-202601140300.gz
FnSSub == Fn("", "PriceFull", <<4>>, <<7>>, "d8-d6")          \* PriceFull7290027600007-4-7-20260114-030000.gz
FnSNoStore == Fn("", "PriceFull", <<>>, <<1, 2, 3, 4, 5>>, "d12") \* store part of 5 digits: no grammar matches

\* String.prototype.padStart(3, "0") on a digit string.
RECURSIVE PadStart3(_)
PadStart3(d) == IF Len(d) >= 3 THEN d ELSE PadStart3(<<0>> \o d)


\* extractStoreIdFromFilename of the fetch-based Yohananof collector: the two
\* PriceFull grammars, tried in order, on a name or a URL ending in that name.
ExtractStoreIdFetch(fn) ==
    IF fn.kind = "PriceFull" /\ fn.sub # <<>> /\ Len(fn.store) \in 1..4 /\ fn.stamp = "d12"
    THEN Some(PadStart3(fn.store))
    ELSE IF fn.kind = "PriceFull" /\ fn.sub = <<>> /\ Len(fn.store) \in 1..4 /\ fn.stamp = "d12"
    THEN Some(PadStart3(fn.store))
    ELSE None

\* extractStoreIdFromFilename of the Shufersal collector: four grammars in order.
ExtractStoreIdShufersal(fn) ==
    IF fn.kind = "Price" /\ fn.sub # <<>> /\ Len(fn.store) \in 1..4 /\ fn.stamp = "d8-d6"
    THEN Some(PadStart3(fn.store))
    ELSE IF fn.kind = "Price" /\ fn.sub = <<>> /\ Len(fn.store) \in 1..4 /\ fn.stamp = "d12"
    THEN Some(PadStart3(fn.store))
    ELSE IF fn.kind = "PriceFull" /\ fn.sub # <<>> /\ Len(fn.store) \in 1..4 /\ fn.stamp = "d8-d6"
    THEN Some(PadStart3(fn.store))
    ELSE IF fn.kind = "PriceFull" /\ fn.sub = <<>> /\ Len(fn.store) \in 1..4 /\ fn.stamp = "d12"
    THEN Some(PadStart3(fn.store))
    ELSE None

ExtractStoreId(chain, fn) ==
    IF chain = CHAIN_SHUFERSAL THEN ExtractStoreIdShufersal(fn) ELSE ExtractStoreIdFetch(fn)

\* parsePriceFullFilenameFromUrl: None when it throws, else the captured store
\* digits exactly as they stand in the name (anchored ^PriceFull(\d+)-(\d+)-(\d{12})\.gz$).
ParsePriceFullFilenameFromUrl(url) ==
    IF url.fn.lead = "" /\ url.fn.kind = "PriceFull" /\ url.fn.sub = <<>> /\ url.fn.stamp = "d12"
    THEN Some(url.fn.store)
    ELSE None

\* --------------------------------------------------------------------- URLs
Url(host, fn) == [host |-> host, fn |-> fn]

UrlY009 == Url("publishedprices", FnY009)
UrlY16 == Url("publishedprices", FnY16)
UrlYLead == Url("publishedprices", FnYLead)
UrlS001 == Url("shufersal", FnS001)
UrlSNoStore == Url("shufersal", FnSNoStore)
UrlYPromo == Url("publishedprices", Fn("", "Promo", <<>>, <<0, 0, 9>>, "d12"))

\* ---------------------------------------------------------- product labels
\* A label is a sequence of one-character strings.
Digits == {"0", "1", "2", "3", "4", "5", "6", "7", "8", "9"}
IsDigit(c) == c \in Digits
IsSpace(c) == c \in {" ", "\t"}
ToLower(c) ==
    CASE c = "X" -> "x" [] c = "M" -> "m" [] c = "L" -> "l" [] c = "G" -> "g"
      [] c = "R" -> "r" [] c = "K" -> "k" [] OTHER -> c

\* The unit alternatives of the first pattern, in the order the pattern lists them.
UNITS == <<
    <<"ג", "ר", "ם">>, <<"ג", "ר">>, <<"ג">>,
    <<"מ", "\"", "ל">>, <<"מ", "ל">>, <<"ל", "י", "ט", "ר">>, <<"ל">>,
    <<"ק", "\"", "ג">>, <<"ק", "ג">>,
    <<"י", "ח", "'">>, <<"י", "ח", "י", "ד", "ה">>, <<"י", "ח", "י", "ד", "ו", "ת">>,
    <<"מ", "\"", "ג">>, <<"מ", "ג">>,
    <<"m", "l">>, <<"g", "r">>, <<"k", "g">>, <<"l">>, <<"g">> >>

RECURSIVE DigitRun(_, _)
DigitRun(s, i) == IF i <= Len(s) /\ IsDigit(s[i]) THEN 1 + DigitRun(s, i + 1) ELSE 0

RECURSIVE SpaceRun(_, _)
SpaceRun(s, i) == IF i <= Len(s) /\ IsSpace(s[i]) THEN 1 + SpaceRun(s, i + 1) ELSE 0

\* u occurs in s at position i, letters compared case-insensitively.
StartsWithCI(s, i, u) ==
    /\ i + Len(u) - 1 <= Len(s)
    /\ \A k \in 1..Len(u) : ToLower(s[i + k - 1]) = u[k]

\* Length of the first unit alternative that matches at i, 0 when none does.
RECURSIVE UnitLenFrom(_, _, _)
UnitLenFrom(s, i, n) ==
    IF n > Len(UNITS) THEN 0
    ELSE IF StartsWithCI(s, i, UNITS[n]) THEN Len(UNITS[n])
    ELSE UnitLenFrom(s, i, n + 1)

\* Length of the match of /\d+(\.\d+)?\s*(unit)/i at position i, 0 when none.
MatchQtyUnit(s, i) ==
    LET d == DigitRun(s, i)
        j == i + d
        frac == IF j <= Len(s) /\ s[j] = "." /\ DigitRun(s, j + 1) > 0
                THEN 1 + DigitRun(s, j + 1) ELSE 0
        k == j + frac
        m == k + SpaceRun(s, k)
        u == UnitLenFrom(s, m, 1)
    IN IF d > 0 /\ u > 0 THEN (m + u) - i ELSE 0

\* Length of the match of /\s*[xX×]\s*\d+/ at position i, 0 when none.
MatchMultiplier(s, i) ==
    LET j == i + SpaceRun(s, i)
        k == j + 1 + SpaceRun(s, j + 1)
        d == DigitRun(s, k)
    IN IF j <= Len(s) /\ s[j] \in {"x", "X", "×"} /\ d > 0 THEN (k + d) - i ELSE 0

\* Length of the match of /\d+%/ at position i, 0 when none.
MatchPercent(s, i) ==
    LET d == DigitRun(s, i)
    IN IF d > 0 /\ i + d <= Len(s) /\ s[i + d] = "%" THEN d + 1 ELSE 0

Brackets == {"(", ")", "[", "]", "{", "}"}

\* String.prototype.replace with a global pattern and "" : pass is 1, 2, 3 for
\* the quantity+unit, multiplier and percentage patterns.
MatchAt(pass, s, i) ==
    CASE pass = 1 -> MatchQtyUnit(s, i)
      [] pass = 2 -> MatchMultiplier(s, i)
      [] OTHER -> MatchPercent(s, i)

RECURSIVE RemoveAll(_, _, _)
RemoveAll(pass, s, i) ==
    IF i > Len(s) THEN <<>>
    ELSE LET n == MatchAt(pass, s, i)
         IN IF n > 0 THEN RemoveAll(pass, s, i + n)
            ELSE <<s[i]>> \o RemoveAll(pass, s, i + 1)

RemoveBrackets(s) == SelectSeq(s, LAMBDA c : c \notin Brackets)

\* replace(/\s+/g, " ")
RECURSIVE CollapseSpaces(_, _)
CollapseSpaces(s, i) ==
    IF i > Len(s) THEN <<>>
    ELSE IF IsSpace(s[i]) THEN <<" ">> \o CollapseSpaces(s, i + SpaceRun(s, i))
    ELSE <<s[i]>> \o CollapseSpaces(s, i + 1)

RECURSIVE Trim(_)
Trim(s) ==
    IF s = <<>> THEN s
    ELSE IF IsSpace(s[1]) THEN Trim(Tail(s))
    ELSE IF IsSpace(s[Len(s)]) THEN Trim(SubSeq(s, 1, Len(s) - 1))
    ELSE s

normalizeCanonical(name) ==
    Trim(CollapseSpaces(RemoveBrackets(RemoveAll(3, RemoveAll(2, RemoveAll(1, name, 1), 1), 1)), 1))


\* ------------------------------------------------------- catalog file bodies
\* An item of the parsed XML: ItemName (label), ItemPrice (None when Number()
\* of it is not finite), ItemCode (None when absent or empty), PriceUpdateTime.
Item(name, price, code, put) == [name |-> name, price |-> price, code |-> code, put |-> put]

LblMilk1l == <<"m", "i", "l", "k", " ", "1", "l">>
LblMilkX2 == <<"m", "i", "l", "k", " ", " ", "x", "2">>
LblMilk == <<"m", "i", "l", "k">>
LblQty == <<"5", "g">>

\* What pako.ungzip + XMLParser.parse give for a body: inflates is FALSE when
\* either throws; root, the root's StoreId (digits, <<>> when absent) and
\* toArray(root.Items.Item).
Doc(inflates, root, store, items) ==
    [inflates |-> inflates, root |-> root, store |-> store, items |-> items]

\* The bytes of a response or stored object: its first two bytes, its length
\* class, its content, and tag, the identity sha256 gives the bytes.
Body(tag, head, len, doc) == [tag |-> tag, head |-> head, len |-> len, doc |-> doc]

NoDoc == Doc(FALSE, FALSE, <<>>, <<>>)
ItemsA == << Item(LblMilk1l, Some(10), Some("c1"), None),
             Item(LblMilkX2, Some(12), Some("c2"), None),
             Item(LblMilk, Some(11), Some("c3"), None),
             Item(<<>>, Some(5), Some("c5"), None),
             Item(LblQty, Some(7), Some("c4"), None) >>
ItemsA2 == << Item(LblMilk1l, Some(20), Some("c1"), None),
              Item(LblMilkX2, Some(12), Some("c2"), None) >>
ItemsDup == << Item(LblMilk, Some(10), Some("c1"), None),
               Item(LblMilk1l, Some(12), Some("c1"), None) >>
ItemsOld == << Item(LblMilk, Some(99), Some("c9"), Some(0 - 9)) >>   \* a price last updated days ago
ItemsInvalid == << Item(<<" ">>, Some(5), Some("c1"), None),
                   Item(LblMilk, None, Some("c2"), None),
                   Item(LblMilk, Some(5), None, None) >>

Html == Body("html", <<60, 33>>, 9, NoDoc)
GzCorrupt == Body("corrupt", <<31, 139>>, 9, NoDoc)
CatNoRoot == Body("noroot", <<31, 139>>, 9, Doc(TRUE, FALSE, <<>>, <<>>))
CatNoItems == Body("noitems", <<31, 139>>, 9, Doc(TRUE, TRUE, <<1, 6>>, <<>>))
CatInvalid == Body("invalid", <<31, 139>>, 9, Doc(TRUE, TRUE, <<1, 6>>, ItemsInvalid))
CatA == Body("catA", <<31, 139>>, 9, Doc(TRUE, TRUE, <<9>>, ItemsA))
CatA2 == Body("catA2", <<31, 139>>, 9, Doc(TRUE, TRUE, <<9>>, ItemsA2))
CatDup == Body("catDup", <<31, 139>>, 9, Doc(TRUE, TRUE, <<>>, ItemsDup))
CatOld == Body("catOld", <<31, 139>>, 9, Doc(TRUE, TRUE, <<1, 6>>, ItemsOld))

\* The bodies a server may answer a URL with.
BodiesOf(url) ==
    CASE url = UrlY009 -> {Html, GzCorrupt, CatA, CatA2, CatDup}
      [] url = UrlY16 -> {CatNoRoot, CatNoItems, CatInvalid}
      [] OTHER -> {Html, CatA}

\* The bodies served in the deployment that exercises the aggregator.
CatalogsOf(url) == IF url = UrlY009 THEN {CatA, CatA2} ELSE {CatOld}

sha256(buf) == buf.tag

\* isGzip: gzip magic bytes 1F 8B.
isGzip(buf) == buf.len > 2 /\ buf.head[1] = 31 /\ buf.head[2] = 139

\* ------------------------------------------------------------------- state
VARIABLES
    ledger,     \* table raw_files: a set of rows
    nextId,     \* next id the database gives a new raw_files row
    bucket,     \* storage bucket raw-prices: a set of [path, body]
    prices,     \* table prices: a set of rows
    stats,      \* table product_stats_daily: a set of rows
    now,        \* the clock, in ticks
    coll,       \* the collector runs, one per process
    dec,        \* the decoder run
    runs,       \* runs started so far
    faults,     \* faults injected so far
    site,       \* the deployment a behaviour follows: the chain whose scripts run
    aggStreak,  \* aggregator runs completed since the prices table or the clock last changed
    label,      \* the string handed to normalizeCanonical
    canon       \* what normalizeCanonical returned for it: <<>> before the call, <<result>> after

vars == <<ledger, nextId, bucket, prices, stats, now, coll, dec, runs, faults, site, aggStreak, label, canon>>

AllProcs == {1, 2}

Day(t) == t \div TicksPerDay

\* A timestamp (the column default now(), new Date()): the clock tick and,
\* within it, the run and the position of the attempt in its run (runs, and
\* the attempts of a run, follow one another).
At(t, run, n) == [t |-> t, run |-> run, n |-> n]
Before(a, b) ==
    \/ a.t < b.t
    \/ a.t = b.t /\ a.run < b.run
    \/ a.t = b.t /\ a.run = b.run /\ a.n < b.n


\* ------------------------------------------------------- table raw_files
Row(chain, storeId, url, path, sha, status, error) ==
    [chain |-> chain, store_id |-> storeId, file_url |-> url, storage_path |-> path,
     sha256 |-> sha, status |-> status, error |-> error]

NoRow == Row("", None, UrlY009, None, NULL, "none", NULL)

Stored(row, id, t) ==
    [id |-> id, chain |-> row.chain, store_id |-> row.store_id, file_url |-> row.file_url,
     storage_path |-> row.storage_path, sha256 |-> row.sha256, fetched_at |-> t,
     status |-> row.status, error |-> row.error]

Existing(l, chain, url) == {r \in l : r.chain = chain /\ r.file_url = url}

\* .from("raw_files").insert(row): the unique (chain, file_url) key rejects a
\* second row; fetched_at is the column default.
InsertConflicts(l, row) == Existing(l, row.chain, row.file_url) # {}
InsertRawFile(l, row, id, t) ==
    IF InsertConflicts(l, row) THEN l ELSE l \cup {Stored(row, id, t)}

\* upsertRawFile: upsert on conflict (chain, file_url); no id is sent, so a
\* conflicting row keeps its id and takes every other column from the new row.
UpsertRawFileAlwaysAdds(l, row, id, t) == l \cup {Stored(row, id, t)}
UpsertRawFileNewId(l, row, id, t) ==
    (l \ Existing(l, row.chain, row.file_url)) \cup {Stored(row, id, t)}
UpsertRawFile(l, row, id, t) ==
    LET old == Existing(l, row.chain, row.file_url)
    IN IF old = {} THEN l \cup {Stored(row, id, t)}
       ELSE (l \ old) \cup {Stored(row, r.id, t) : r \in old}

\* .from("raw_files").update(fields).eq("id", id)
UpdateStatus(l, id, status, error) ==
    {IF r.id = id THEN [r EXCEPT !.status = status, !.error = error] ELSE r : r \in l}
UpdateStoreIdKeepsOld(l, id, storeId) == l
UpdateStoreId(l, id, storeId) ==
    {IF r.id = id THEN [r EXCEPT !.store_id = storeId] ELSE r : r \in l}

\* ------------------------------------------------------ bucket raw-prices
Path(chain, day, store, fn) == [chain |-> chain, day |-> day, store |-> store, fn |-> fn]
ObjectsAt(b, path) == {o \in b : o.path = path}

\* storage.upload(path, body, {upsert}): create-if-absent unless upsert.
UploadRejects(b, path, upsert) == ~upsert /\ ObjectsAt(b, path) # {}
Upload(b, path, body, upsert) ==
    IF UploadRejects(b, path, upsert) THEN b
    ELSE (b \ ObjectsAt(b, path)) \cup {[path |-> path, body |-> body]}


\* The row a collector goes on to write once the upload has answered: failed
\* with the upload's error, else downloaded.
AfterUploadAlwaysDownloaded(chain, storeId, url, path, sha, upErr, msg) ==
    Row(chain, storeId, url, Some(path), sha, "downloaded", NULL)
AfterUpload(chain, storeId, url, path, sha, upErr, msg) ==
    IF upErr THEN Row(chain, storeId, url, Some(path), sha, "failed", msg)
    ELSE Row(chain, storeId, url, Some(path), sha, "downloaded", NULL)

\* ------------------------------------------------------------ environment
\* A fault (a database error, a storage error, a transport error) may be
\* injected while fewer than MaxFaults have been.
FaultChoices == IF faults < MaxFaults /\ site # "stats" THEN {FALSE, TRUE} ELSE {FALSE}
Count(f) == IF f THEN 1 ELSE 0

\* The content-disposition file name a server may declare for a URL.
DeclaredNames(url) == IF url = UrlSNoStore THEN {None, Some(FnSSub)} ELSE {None}

\* Date of the 12-digit stamp in a name; every name of the model carries 20260114.
DateOfStamp(fn) == 0

\* Inputs of a run.
MaxDownloadsInputs == IF site = "seeds" THEN {0, 1, 2} ELSE {1, 2}
SeedInputs == IF site = "seeds" THEN {<<>>, <<UrlY009, UrlYPromo>>} ELSE {<<UrlY009>>}
HomepageInputs == {<<>>, <<UrlY16>>}                        \* links tryExtractLinksFromHomepage finds
UrlsInputs == IF site = "seeds" THEN {<<>>, <<UrlY16>>} ELSE {<<>>}   \* args.urls
UrlSPromo == Url("shufersal", Fn("", "Promo", <<>>, <<0, 0, 1>>, "d12"))
ListingInputs ==
    IF site = "pages"
    THEN { << <<UrlS001, UrlSPromo>>, <<UrlSNoStore>> >>,
           << <<UrlS001>>, <<UrlSPromo>>, <<UrlSNoStore>> >> }      \* page 2 has no PriceFull link
    ELSE { << <<UrlS001, UrlSPromo>>, <<UrlSNoStore>> >> }
DiscoveredInputs == { <<UrlY009, UrlY16>>, <<UrlYLead, UrlY009>> }
MaxPagesInputs == IF site = "pages" THEN {1, 2, 3} ELSE {2}

\* ------------------------------------------------------- collector runs
Attempt(fetched, gz, up) == [fetched |-> fetched, gz |-> gz, up |-> up]
NoAttempt == Attempt(FALSE, FALSE, "none")

IdleRun ==
    [kind |-> "none", pc |-> "idle", chain |-> "", listing |-> <<>>, page |-> 0,
     maxPages |-> 0, links |-> <<>>, i |-> 1, n |-> 0, maxDownloads |-> 0, downloaded |-> 0,
     pend |-> NoRow, att |-> NoAttempt, seeds |-> <<>>, discovery |-> FALSE]

\* What is left of a run that has returned or thrown: its result.
Finished(r, pc) ==
    [IdleRun EXCEPT !.kind = r.kind, !.chain = r.chain, !.pc = pc, !.downloaded = r.downloaded]

Stopped(r) == r.pc \in {"idle", "done", "aborted"}
Quiet == (\A p \in AllProcs : Stopped(coll[p])) /\ dec.pc \in {"idle", "done", "aborted"}
\* Runs are counted up to MaxRuns; where runs repeat without end (site "live")
\* the count stays at MaxRuns.
CanStart == Quiet /\ (runs < MaxRuns \/ site = "live")
Sites == {CHAIN_FETCH, CHAIN_SHUFERSAL, CHAIN_CURL}

CurUrl(r) == r.links[r.i]

\* runYohananofCollector (fetch-based): seeds, else the homepage links; only
\* PriceFull<digits>...gz links are kept.
StartFetchCollector(p) ==
    /\ CanStart
    /\ site \in {CHAIN_FETCH, "seeds"}
    /\ \E seeds \in SeedInputs, md \in MaxDownloadsInputs :
       \E home \in IF seeds = <<>> THEN HomepageInputs ELSE {<<>>} :
         LET found == IF seeds # <<>> THEN seeds ELSE home
             links == SelectSeq(found, LAMBDA u : u.fn.kind = "PriceFull")
             r == [IdleRun EXCEPT !.kind = "fetch", !.chain = CHAIN_FETCH, !.pc = "loop",
                                  !.links = links, !.maxDownloads = md,
                                  !.seeds = seeds, !.discovery = (seeds = <<>>)]
         IN coll' = [coll EXCEPT ![p] = IF found = <<>> THEN Finished(r, "done") ELSE r]
    /\ runs' = runs + 1
    /\ UNCHANGED <<label, canon, site, aggStreak, ledger, nextId, bucket, prices, stats, now, dec, faults>>

\* extractPriceGzLinks: PriceFull gzip links, not Promo.
extractEveryLink(anchors) == anchors
extractPriceGzLinks(anchors) ==
    SelectSeq(anchors, LAMBDA u : u.fn.lead = "" /\ u.fn.kind = "PriceFull")

\* runShufersalCollector: start of the run.
StartShufersalCollector(p) ==
    /\ CanStart
    /\ site \in {CHAIN_SHUFERSAL, "pages"}
    /\ \E listing \in ListingInputs, mp \in MaxPagesInputs, md \in MaxDownloadsInputs :
         coll' = [coll EXCEPT ![p] =
                [IdleRun EXCEPT !.kind = "shufersal", !.chain = CHAIN_SHUFERSAL, !.pc = "page",
                                !.listing = listing, !.maxPages = mp, !.maxDownloads = md]]
    /\ runs' = runs + 1
    /\ UNCHANGED <<label, canon, site, aggStreak, ledger, nextId, bucket, prices, stats, now, dec, faults>>

\* runShufersalCollector: the head of the page loop (fetchPageHtml throws on
\* a non-success listing response, which ends the run).
ShufersalPage(p) ==
    /\ coll[p].pc = "page"
    /\ LET r == coll[p]
           n == r.page + 1
       IN IF n > r.maxPages
          THEN coll' = [coll EXCEPT ![p] = Finished(r, "done")] /\ UNCHANGED faults
          ELSE \E f \in FaultChoices :
                 /\ faults' = faults + Count(f)
                 /\ IF f THEN coll' = [coll EXCEPT ![p] = Finished(r, "aborted")]
                    ELSE LET links == IF n <= Len(r.listing)
                                      THEN extractPriceGzLinks(r.listing[n]) ELSE <<>>
                         IN coll' = [coll EXCEPT ![p] =
                                IF links = <<>> THEN Finished(r, "done")
                                ELSE [r EXCEPT !.page = n, !.links = links, !.i = 1, !.pc = "loop"]]
    /\ UNCHANGED <<label, canon, site, aggStreak, ledger, nextId, bucket, prices, stats, now, dec, runs>>

\* Head of the per-file loop of the two fetch-based collectors: the cap, then
\* the dedup select on (chain, file_url); a select error is thrown.
CollectorLoop(p) ==
    /\ coll[p].pc = "loop"
    /\ LET r == coll[p]
       IN IF r.i > Len(r.links)
          THEN coll' = [coll EXCEPT ![p] = IF r.kind = "shufersal" THEN [r EXCEPT !.pc = "page"]
                                            ELSE Finished(r, "done")]
               /\ UNCHANGED faults
          ELSE IF r.downloaded >= r.maxDownloads
          THEN coll' = [coll EXCEPT ![p] = Finished(r, "done")] /\ UNCHANGED faults
          ELSE \E f \in FaultChoices :
                 /\ faults' = faults + Count(f)
                 /\ coll' = [coll EXCEPT ![p] =
                        IF f THEN Finished(r, "aborted")
                        ELSE IF Existing(ledger, r.chain, CurUrl(r)) # {}
                        THEN [r EXCEPT !.i = r.i + 1]
                        ELSE [r EXCEPT !.pc = "fetch", !.n = r.n + 1, !.pend = NoRow, !.att = NoAttempt]]
    /\ UNCHANGED <<label, canon, site, aggStreak, ledger, nextId, bucket, prices, stats, now, dec, runs>>

\* The try block of the fetch-based collectors up to the upload: fetch, hash,
\* file name, store id, upload with upsert: false. pend is the row the
\* collector goes on to insert.
CollectorFetch(p) ==
    /\ coll[p].pc = "fetch"
    /\ coll[p].kind \in {"fetch", "shufersal"}
    /\ LET r == coll[p]
           url == CurUrl(r)
       IN \E f \in FaultChoices :
            IF f
            THEN /\ faults' = faults + 1
                 /\ bucket' = bucket
                 /\ coll' = [coll EXCEPT ![p].pc = "write",
                                 ![p].pend = Row(r.chain, None, url, None, NULL, "failed", "Download HTTP")]
            ELSE \E body \in IF site = "stats" THEN CatalogsOf(url) ELSE BodiesOf(url), cd \in DeclaredNames(url), g \in FaultChoices :
                   LET filename == IF IsSome(cd) THEN Get(cd) ELSE url.fn
                       byName == ExtractStoreId(r.chain, filename)
                       byUrl == ExtractStoreId(r.chain, url.fn)
                       storeId == IF IsSome(byName) THEN byName ELSE byUrl
                       path == Path(r.chain, Day(now), Get(storeId), filename)
                       upErr == g \/ UploadRejects(bucket, path, FALSE)
                   IN IF ~IsSome(storeId)
                      THEN /\ g = FALSE
                           /\ UNCHANGED <<faults, bucket>>
                           /\ coll' = [coll EXCEPT ![p].pc = "write",
                                  ![p].att = Attempt(TRUE, isGzip(body), "none"),
                                  ![p].pend = Row(r.chain, None, url, None, sha256(body), "skipped",
                                                  "no storeId in filename")]
                      ELSE /\ faults' = faults + Count(g)
                           /\ bucket' = IF upErr THEN bucket ELSE Upload(bucket, path, body, FALSE)
                           /\ coll' = [coll EXCEPT ![p].pc = "write",
                                  ![p].att = Attempt(TRUE, isGzip(body), IF upErr THEN "error" ELSE "ok"),
                                  ![p].pend = AfterUpload(r.chain, storeId, url, path, sha256(body),
                                                          upErr, "upload error")]
    /\ UNCHANGED <<label, canon, site, aggStreak, ledger, nextId, prices, stats, now, dec, runs>>

\* The inserts of the fetch-based collectors: the row of the attempt; when the
\* insert of a downloaded row fails, the catch block inserts a failed row.
CollectorWrite(p) ==
    /\ coll[p].pc = "write"
    /\ coll[p].kind \in {"fetch", "shufersal"}
    /\ LET r == coll[p]
           row == r.pend
       IN \E f \in FaultChoices :
            LET insErr == f \/ InsertConflicts(ledger, row)
                l1 == IF insErr THEN ledger ELSE InsertRawFile(ledger, row, nextId, At(now, runs, r.n))
                id1 == IF insErr THEN nextId ELSE nextId + 1
            IN IF row.status = "downloaded" /\ insErr
               THEN \E g \in IF faults + Count(f) < MaxFaults THEN {FALSE, TRUE} ELSE {FALSE} :
                      LET failed == [row EXCEPT !.status = "failed", !.error = "insert error"]
                          err2 == g \/ InsertConflicts(ledger, failed)
                      IN /\ faults' = faults + Count(f) + Count(g)
                         /\ ledger' = IF err2 THEN ledger
                                      ELSE InsertRawFile(ledger, failed, nextId, At(now, runs, r.n))
                         /\ nextId' = IF err2 THEN nextId ELSE nextId + 1
                         /\ coll' = [coll EXCEPT ![p].pc = "loop", ![p].i = r.i + 1,
                                         ![p].pend = NoRow, ![p].att = NoAttempt]
               ELSE /\ faults' = faults + Count(f)
                    /\ ledger' = l1
                    /\ nextId' = id1
                    /\ coll' = [coll EXCEPT ![p].pc = "loop", ![p].i = r.i + 1,
                                    ![p].pend = NoRow, ![p].att = NoAttempt,
                                    ![p].downloaded = IF row.status = "downloaded"
                                                      THEN r.downloaded + 1 ELSE r.downloaded]
    /\ UNCHANGED <<label, canon, site, aggStreak, bucket, prices, stats, now, dec, runs>>


\* runYohananofCollector (curl-based): cookie jar, login, discovery of the
\* PriceFull links, and the cut to maxDownloads links.
discoverPriceFullUrls(hrefs) ==
    SelectSeq(hrefs, LAMBDA u : u.fn.kind = "PriceFull" /\ u.fn.sub = <<>> /\ u.fn.stamp = "d12")

Slice(q, n) == SubSeq(q, 1, IF n < Len(q) THEN n ELSE Len(q))

StartCurlCollector(p) ==
    /\ CanStart
    /\ site \in {CHAIN_CURL, "stats", "seeds"}
    /\ \E hrefs \in DiscoveredInputs, md \in MaxDownloadsInputs, given \in UrlsInputs :
         LET urls == Slice(discoverPriceFullUrls(hrefs), md)
             r == [IdleRun EXCEPT !.kind = "curl", !.chain = CHAIN_CURL, !.links = urls,
                                  !.listing = <<discoverPriceFullUrls(hrefs)>>,
                                  !.seeds = given, !.discovery = TRUE,
                                  !.maxDownloads = md, !.n = 1, !.pc = "fetch"]
         IN coll' = [coll EXCEPT ![p] = IF urls = <<>> THEN Finished(r, "done") ELSE r]
    /\ runs' = runs + 1
    /\ UNCHANGED <<label, canon, site, aggStreak, ledger, nextId, bucket, prices, stats, now, dec, faults>>

\* The body of the curl collector's loop up to the upload: the file name is
\* parsed (a throw ends the run), curl downloads (a failure ends the run), the
\* bytes are checked for the gzip signature and uploaded with upsert: true.
CurlFetch(p) ==
    /\ coll[p].pc = "fetch"
    /\ coll[p].kind = "curl"
    /\ LET r == coll[p]
           url == CurUrl(r)
           parsed == ParsePriceFullFilenameFromUrl(url)
       IN IF ~IsSome(parsed)
          THEN coll' = [coll EXCEPT ![p] = Finished(r, "aborted")] /\ UNCHANGED <<faults, bucket>>
          ELSE \E f \in FaultChoices :
            IF f
            THEN /\ faults' = faults + 1
                 /\ bucket' = bucket
                 /\ coll' = [coll EXCEPT ![p] = Finished(r, "aborted")]
            ELSE \E body \in IF site = "stats" THEN CatalogsOf(url) ELSE BodiesOf(url), g \in FaultChoices :
                   LET storeId == Get(parsed)
                       path == Path("yohananof", DateOfStamp(url.fn), storeId, url.fn)
                   IN IF ~isGzip(body)
                      THEN /\ g = FALSE
                           /\ UNCHANGED <<faults, bucket>>
                           /\ coll' = [coll EXCEPT ![p].pc = "write",
                                  ![p].att = Attempt(TRUE, FALSE, "none"),
                                  ![p].pend = Row(CHAIN_CURL, Some(storeId), url, Some(path), NULL,
                                                  "failed", "Download returned non-gzip content")]
                      ELSE /\ faults' = faults + Count(g)
                           /\ bucket' = IF g THEN bucket ELSE Upload(bucket, path, body, TRUE)
                           /\ coll' = [coll EXCEPT ![p].pc = "write",
                                  ![p].att = Attempt(TRUE, TRUE, IF g THEN "error" ELSE "ok"),
                                  ![p].pend = AfterUpload(CHAIN_CURL, Some(storeId), url, path,
                                                          sha256(body), g, "Storage upload failed")]
    /\ UNCHANGED <<label, canon, site, aggStreak, ledger, nextId, prices, stats, now, dec, runs>>

\* The upsertRawFile call that ends an iteration of the curl collector; its
\* error is logged only, and downloaded is counted after the downloaded row.
CurlWrite(p) ==
    /\ coll[p].pc = "write"
    /\ coll[p].kind = "curl"
    /\ LET r == coll[p]
           row == r.pend
       IN \E f \in FaultChoices :
            /\ faults' = faults + Count(f)
            /\ ledger' = IF f THEN ledger ELSE UpsertRawFile(ledger, row, nextId, At(now, runs, r.n))
            /\ nextId' = IF f \/ Existing(ledger, row.chain, row.file_url) # {}
                         THEN nextId ELSE nextId + 1
            /\ LET d == IF row.status = "downloaded" THEN r.downloaded + 1 ELSE r.downloaded
                   q == [r EXCEPT !.i = r.i + 1, !.n = r.n + 1, !.pc = "fetch", !.downloaded = d,
                                  !.pend = NoRow, !.att = NoAttempt]
               IN coll' = [coll EXCEPT ![p] = IF r.i + 1 > Len(r.links) THEN Finished(q, "done") ELSE q]
    /\ UNCHANGED <<label, canon, site, aggStreak, bucket, prices, stats, now, dec, runs>>


\* ------------------------------------------------------------ table prices
PriceRow(id, storeId, code, name, canonical, price, put) ==
    [raw_file_id |-> id, chain |-> CHAIN, store_id |-> storeId, item_code |-> code,
     item_name |-> name, canonical_key |-> canonical, price |-> price,
     price_update_time |-> put]

WithFetchedAt(row, t) ==
    [raw_file_id |-> row.raw_file_id, chain |-> row.chain, store_id |-> row.store_id,
     item_code |-> row.item_code, item_name |-> row.item_name,
     canonical_key |-> row.canonical_key, price |-> row.price,
     price_update_time |-> row.price_update_time, fetched_at |-> t]

SameKey(a, b) == a.raw_file_id = b.raw_file_id /\ a.item_code = b.item_code

\* One statement cannot touch a row twice: a chunk that repeats a key is rejected.
ChunkRejected(chunk) ==
    \E a, b \in 1..Len(chunk) : a < b /\ SameKey(chunk[a], chunk[b])

\* .from("prices").upsert(chunk, { onConflict: "raw_file_id,item_code" }): a
\* conflicting row takes the sent columns and keeps fetched_at, a new row gets
\* the column default.
UpsertPricesAdds(tbl, chunk, t) ==
    tbl \cup {WithFetchedAt(chunk[k], t) : k \in 1..Len(chunk)}
UpsertPrices(tbl, chunk, t) ==
    LET new == {chunk[k] : k \in 1..Len(chunk)}
        kept == {r \in tbl : \A c \in new : ~SameKey(r, c)}
        old(c) == {r \in tbl : SameKey(r, c)}
    IN kept \cup {WithFetchedAt(c, IF old(c) = {} THEN t ELSE (CHOOSE r \in old(c) : TRUE).fetched_at)
                  : c \in new}

\* ------------------------------------------------------------ the decoder
LIMIT == 2      \* .limit(50), scaled down

\* rawName.trim() with runs of white space collapsed.
CleanNameUntrimmed(raw) == raw
CleanName(raw) == CollapseSpaces(Trim(raw), 1)

\* The rows the item loop collects: an item without a name, a finite price or
\* an item code is passed over.
RECURSIVE BuildRows(_, _, _, _)
BuildRows(items, id, storeId, k) ==
    IF k > Len(items) THEN <<>>
    ELSE LET it == items[k]
             clean == CleanName(it.name)
             canonical == normalizeCanonical(clean)
             keep == clean # <<>> /\ IsSome(it.price) /\ IsSome(it.code)
         IN (IF keep
             THEN << PriceRow(id, storeId, Get(it.code), clean,
                              IF canonical = <<>> THEN None ELSE Some(canonical),
                              Get(it.price), it.put) >>
             ELSE <<>>) \o BuildRows(items, id, storeId, k + 1)

Chunk(rows, b) == SubSeq(rows, (b - 1) * BATCH + 1,
                         IF b * BATCH < Len(rows) THEN b * BATCH ELSE Len(rows))
Chunks(rows) == (Len(rows) + BATCH - 1) \div BATCH

\* The batch loop: chunk b is upserted unless the database fails it (b \in F)
\* or rejects it; an error is answered by marking the file failed and going on
\* with the next chunk.
BatchFails(rows, b, F) == b \in F \/ ChunkRejected(Chunk(rows, b))
RECURSIVE WriteBatches(_, _, _, _, _)
WriteBatches(tbl, rows, b, F, t) ==
    IF b > Chunks(rows) THEN tbl
    ELSE WriteBatches(IF BatchFails(rows, b, F) THEN tbl ELSE UpsertPrices(tbl, Chunk(rows, b), t),
                      rows, b + 1, F, t)

\* The raw_files updates of the batch loop and of the statement after it: failed
\* at each failing chunk, then parsed.
AfterBatches(l, id, rows, F) ==
    UpdateStatus(IF \E b \in 1..Chunks(rows) : BatchFails(rows, b, F)
                 THEN UpdateStatus(l, id, "failed", "upsert error") ELSE l,
                 id, "parsed", NULL)

IdleDecoder == [pc |-> "idle", files |-> <<>>, i |-> 1]

\* The rows the select of the decoder returns, most recently fetched first.
SelectableAnyStatus(r) ==
    /\ r.chain = CHAIN
    /\ IsSome(r.storage_path) /\ Get(r.storage_path).fn.kind = "PriceFull"
Selectable(r) ==
    /\ r.chain = CHAIN
    /\ r.status = "downloaded"
    /\ IsSome(r.storage_path) /\ Get(r.storage_path).fn.kind = "PriceFull"

RECURSIVE Orders(_)
Orders(S) ==
    IF S = {} THEN {<<>>}
    ELSE UNION { {<<x>> \o q : q \in Orders(S \ {x})} :
                 x \in {y \in S : \A z \in S : ~Before(y.fetched_at, z.fetched_at)} }

Snapshot(r) == [id |-> r.id, storage_path |-> r.storage_path, store_id |-> r.store_id]

DecoderStart ==
    /\ CanStart
    /\ \E f \in FaultChoices :
         /\ faults' = faults + Count(f)
         /\ IF f THEN dec' = [IdleDecoder EXCEPT !.pc = "aborted"]
            ELSE \E q \in Orders({r \in ledger : Selectable(r)}) :
                   LET files == Slice(q, LIMIT)
                   IN dec' = [pc |-> IF files = <<>> THEN "done" ELSE "run",
                              files |-> [k \in 1..Len(files) |-> Snapshot(files[k])],
                              i |-> 1]
    /\ runs' = IF runs < MaxRuns THEN runs + 1 ELSE runs
    /\ UNCHANGED <<label, canon, site, aggStreak, ledger, nextId, bucket, prices, stats, now, coll>>

\* One iteration of the decoder's loop over the selected files.
DecoderFile ==
    /\ dec.pc = "run"
    /\ LET f == dec.files[dec.i]
           objs == ObjectsAt(bucket, Get(f.storage_path))
           next == IF dec.i + 1 > Len(dec.files) THEN [IdleDecoder EXCEPT !.pc = "done"]
                   ELSE [dec EXCEPT !.i = dec.i + 1]
           Fail(msg) == /\ ledger' = UpdateStatus(ledger, f.id, "failed", msg)
                        /\ dec' = next
                        /\ UNCHANGED prices
       IN \E d \in FaultChoices :
            IF d \/ objs = {}
            THEN faults' = faults + Count(d) /\ Fail("storage download error")
            ELSE LET buf == (CHOOSE o \in objs : TRUE).body
                     doc == buf.doc
                     storeIdNorm == IF doc.store # <<>> THEN Some(PadStart3(doc.store))
                                    ELSE IF IsSome(f.store_id) THEN Some(PadStart3(Get(f.store_id)))
                                    ELSE None
                     withStore == UpdateStoreId(ledger, f.id, storeIdNorm)
                     rows == BuildRows(doc.items, f.id, storeIdNorm, 1)
                 IN IF ~isGzip(buf)
                    THEN UNCHANGED faults /\ Fail("Not a gzip file (magic bytes missing)")
                    ELSE IF ~doc.inflates
                    THEN /\ dec' = [IdleDecoder EXCEPT !.pc = "aborted"]
                         /\ UNCHANGED <<faults, ledger, prices>>
                    ELSE IF ~doc.root
                    THEN UNCHANGED faults /\ Fail("XML missing root")
                    ELSE IF ~IsSome(storeIdNorm)
                    THEN UNCHANGED faults /\ Fail("Missing StoreId in XML")
                    ELSE IF doc.items = <<>>
                    THEN /\ ledger' = UpdateStatus(withStore, f.id, "failed", "No Items in XML")
                         /\ dec' = next
                         /\ UNCHANGED <<faults, prices>>
                    ELSE \E F \in SUBSET (1..Chunks(rows)) :
                           /\ Cardinality(F) <= MaxFaults - faults
                           /\ faults' = faults + Cardinality(F)
                           /\ prices' = WriteBatches(prices, rows, 1, F, At(now, runs, 0))
                           /\ ledger' = AfterBatches(withStore, f.id, rows, F)
                           /\ dec' = next
    /\ aggStreak' = IF prices' = prices THEN aggStreak ELSE 0
    /\ UNCHANGED <<label, canon, site, nextId, bucket, stats, now, coll, runs>>


\* ------------------------------------------------------ the daily aggregator
\* coalesce(price_update_time, fetched_at)
Effective(r) == IF IsSome(r.price_update_time) THEN Get(r.price_update_time) ELSE r.fetched_at.t

\* where canonical_key is not null and coalesce(...) >= now() - interval '2 days'
InWindow(r, t) == IsSome(r.canonical_key) /\ Effective(r) >= t - WindowDays * TicksPerDay

GroupKey(r) == <<Day(Effective(r)), r.chain, Get(r.canonical_key)>>

RECURSIVE SumPrices(_)
SumPrices(S) == IF S = {} THEN 0 ELSE LET r == CHOOSE x \in S : TRUE IN r.price + SumPrices(S \ {r})

\* round(avg(price)::numeric, 2), in hundredths.
RoundAvg(sum, n) == (200 * sum + n) \div (2 * n)

StatRowMinIsMax(key, S) ==
    [day |-> key[1], chain |-> key[2], canonical_key |-> key[3],
     avg_price |-> RoundAvg(SumPrices(S), Cardinality(S)),
     sample_count |-> Cardinality(S),
     min_price |-> CHOOSE m \in {r.price : r \in S} : \A r \in S : m >= r.price,
     max_price |-> CHOOSE m \in {r.price : r \in S} : \A r \in S : m >= r.price]
StatRow(key, S) ==
    [day |-> key[1], chain |-> key[2], canonical_key |-> key[3],
     avg_price |-> RoundAvg(SumPrices(S), Cardinality(S)),
     sample_count |-> Cardinality(S),
     min_price |-> CHOOSE m \in {r.price : r \in S} : \A r \in S : m <= r.price,
     max_price |-> CHOOSE m \in {r.price : r \in S} : \A r \in S : m >= r.price]

\* The select ... group by 1,2,3 of the statement.
Aggregated(tbl, t) ==
    LET win == {r \in tbl : InWindow(r, t)}
    IN {StatRow(k, {r \in win : GroupKey(r) = k}) : k \in {GroupKey(r) : r \in win}}

StatKey(x) == <<x.day, x.chain, x.canonical_key>>

\* insert ... on conflict (day, chain, canonical_key) do update set ...
UpsertStatsAccumulates(st, new) ==
    {x \in st : \A y \in new : StatKey(x) # StatKey(y)}
    \cup {IF \E x \in st : StatKey(x) = StatKey(y)
          THEN [y EXCEPT !.sample_count = y.sample_count
                            + (CHOOSE x \in st : StatKey(x) = StatKey(y)).sample_count]
          ELSE y : y \in new}
UpsertStats(st, new) == {x \in st : \A y \in new : StatKey(x) # StatKey(y)} \cup new

\* aggregate_daily main: the statement through the execute_sql RPC; an RPC
\* error leaves the table as it is.
Aggregate ==
    /\ CanStart
    /\ \E f \in IF faults < MaxFaults THEN {FALSE, TRUE} ELSE {FALSE} :
         /\ faults' = faults + Count(f)
         /\ stats' = IF f THEN stats ELSE UpsertStats(stats, Aggregated(prices, now))
         /\ aggStreak' = IF f \/ aggStreak = 2 THEN aggStreak ELSE aggStreak + 1
    /\ runs' = runs + 1
    /\ UNCHANGED <<label, canon, site, ledger, nextId, bucket, prices, now, coll, dec>>

\* Time passes between runs.
Tick ==
    /\ Quiet
    /\ now < MaxNow
    /\ now' = now + 1
    /\ aggStreak' = 0
    /\ UNCHANGED <<label, canon, site, ledger, nextId, bucket, prices, stats, coll, dec, runs, faults>>

\* ------------------------------------------------------------ specification
Start ==
    /\ ledger = {}
    /\ nextId = 1
    /\ bucket = {}
    /\ prices = {}
    /\ stats = {}
    /\ now = 0
    /\ coll = [p \in AllProcs |-> IdleRun]
    /\ dec = IdleDecoder
    /\ runs = 0
    /\ faults = 0
    /\ aggStreak = 0
    /\ label = <<>>
    /\ canon = None

\* One run at a time (the single-runner deployment): process 1 runs the collectors.
Procs == {1}

\* Ingestion: a behaviour runs the collector of one chain, and the decoder.
\* The chains share no ledger row and no object: every key and every path
\* starts with the chain.
Init == Start /\ site \in Sites

Next ==
    \/ \E p \in Procs : StartFetchCollector(p)
    \/ \E p \in Procs : StartShufersalCollector(p)
    \/ \E p \in Procs : ShufersalPage(p)
    \/ \E p \in Procs : CollectorLoop(p)
    \/ \E p \in Procs : CollectorFetch(p)
    \/ \E p \in Procs : CollectorWrite(p)
    \/ \E p \in Procs : StartCurlCollector(p)
    \/ \E p \in Procs : CurlFetch(p)
    \/ \E p \in Procs : CurlWrite(p)
    \/ DecoderStart
    \/ DecoderFile

Spec == Init /\ [][Next]_vars

\* Aggregation: collect, parse and aggregate catalogs of one chain while time passes.
InitAgg == Start /\ site = "stats"

NextAgg ==
    \/ \E p \in Procs : StartCurlCollector(p)
    \/ \E p \in Procs : CurlFetch(p)
    \/ \E p \in Procs : CurlWrite(p)
    \/ DecoderStart
    \/ DecoderFile
    \/ Aggregate
    \/ Tick

SpecAgg == InitAgg /\ [][NextAgg]_vars


\* Canonicalization on its own: normalizeCanonical applied to every label of
\* up to MaxLen characters, and again to what it returned.
Alphabet == {"5", "g", "(", "x", "%", " ", "a"}
Labels == UNION {[1..n -> Alphabet] : n \in 0..MaxLen}

\* const canonical = normalizeCanonical(cleanName)
Canonicalize ==
    /\ canon = None
    /\ canon' = Some(normalizeCanonical(label))
    /\ UNCHANGED <<label, site, aggStreak, ledger, nextId, bucket, prices, stats, now, coll, dec,
                   runs, faults>>

\* A canonical key comes back as an item name.
Recanonicalize ==
    /\ IsSome(canon)
    /\ Get(canon) # label
    /\ label' = Get(canon)
    /\ canon' = None
    /\ UNCHANGED <<site, aggStreak, ledger, nextId, bucket, prices, stats, now, coll, dec,
                   runs, faults>>

InitNorm ==
    /\ ledger = {} /\ nextId = 1 /\ bucket = {} /\ prices = {} /\ stats = {} /\ now = 0
    /\ coll = [p \in AllProcs |-> IdleRun] /\ dec = IdleDecoder
    /\ runs = 0 /\ faults = 0 /\ aggStreak = 0
    /\ site = "labels"
    /\ label \in Labels
    /\ canon = None

NextNorm ==
    \/ Canonicalize
    \/ Recanonicalize

SpecNorm == InitNorm /\ [][NextNorm]_vars


\* Two runs of one collector at once (two schedulers firing the same script):
\* both have started with the same inputs; their steps interleave. No fault
\* is injected: what goes wrong here goes wrong by the interleaving alone.
ShufersalRun(listing, mp, md) ==
    [IdleRun EXCEPT !.kind = "shufersal", !.chain = CHAIN_SHUFERSAL, !.pc = "page",
                    !.listing = listing, !.maxPages = mp, !.maxDownloads = md]

CurlRun(hrefs, md) ==
    LET urls == Slice(discoverPriceFullUrls(hrefs), md)
        r == [IdleRun EXCEPT !.kind = "curl", !.chain = CHAIN_CURL, !.pc = "fetch", !.n = 1,
                             !.listing = <<discoverPriceFullUrls(hrefs)>>,
                             !.discovery = TRUE,
                             !.links = urls, !.maxDownloads = md]
    IN IF urls = <<>> THEN Finished(r, "done") ELSE r

InitRace ==
    /\ ledger = {} /\ nextId = 1 /\ bucket = {} /\ prices = {} /\ stats = {} /\ now = 0
    /\ dec = IdleDecoder /\ aggStreak = 0 /\ label = <<>> /\ canon = None
    /\ runs = 2
    /\ faults = MaxFaults
    /\ site \in {CHAIN_SHUFERSAL, CHAIN_CURL}
    /\ \E md \in MaxDownloadsInputs :
         \/ /\ site = CHAIN_SHUFERSAL
            /\ \E listing \in ListingInputs, mp \in MaxPagesInputs :
                 coll = [p \in AllProcs |-> ShufersalRun(listing, mp, md)]
         \/ /\ site = CHAIN_CURL
            /\ coll = [p \in AllProcs |-> CurlRun(<<UrlY009, UrlY16>>, md)]

NextRace ==
    \/ \E p \in AllProcs : ShufersalPage(p)
    \/ \E p \in AllProcs : CollectorLoop(p)
    \/ \E p \in AllProcs : CollectorFetch(p)
    \/ \E p \in AllProcs : CollectorWrite(p)
    \/ \E p \in AllProcs : CurlFetch(p)
    \/ \E p \in AllProcs : CurlWrite(p)

SpecRace == InitRace /\ [][NextRace]_vars

\* Runs given seed URLs: the two Yohananof collectors, each called with and
\* without a list of URLs, no fault injected.
InitSeeds ==
    /\ ledger = {} /\ nextId = 1 /\ bucket = {} /\ prices = {} /\ stats = {} /\ now = 0
    /\ coll = [p \in AllProcs |-> IdleRun] /\ dec = IdleDecoder
    /\ runs = 0 /\ aggStreak = 0 /\ label = <<>> /\ canon = None
    /\ faults = MaxFaults
    /\ site = "seeds"

NextSeeds ==
    \/ \E p \in Procs : StartFetchCollector(p)
    \/ \E p \in Procs : CollectorLoop(p)
    \/ \E p \in Procs : CollectorFetch(p)
    \/ \E p \in Procs : CollectorWrite(p)
    \/ \E p \in Procs : StartCurlCollector(p)
    \/ \E p \in Procs : CurlFetch(p)
    \/ \E p \in Procs : CurlWrite(p)

SpecSeeds == InitSeeds /\ [][NextSeeds]_vars

\* Paging: runs of the Shufersal collector over listings of two and three
\* pages with maxPages 1, 2 and 3, no fault injected.
InitPages ==
    /\ ledger = {} /\ nextId = 1 /\ bucket = {} /\ prices = {} /\ stats = {} /\ now = 0
    /\ coll = [p \in AllProcs |-> IdleRun] /\ dec = IdleDecoder
    /\ runs = 0 /\ aggStreak = 0 /\ label = <<>> /\ canon = None
    /\ faults = MaxFaults
    /\ site = "pages"

NextPages ==
    \/ \E p \in Procs : StartShufersalCollector(p)
    \/ \E p \in Procs : ShufersalPage(p)
    \/ \E p \in Procs : CollectorLoop(p)
    \/ \E p \in Procs : CollectorFetch(p)
    \/ \E p \in Procs : CollectorWrite(p)

SpecPages == InitPages /\ [][NextPages]_vars

\* The decoder on its own: one decoder run over a ledger and a bucket that
\* three earlier runs of the curl-based collector have left, no fault
\* injected. The first file's catalog is any list of up to MaxItems items
\* under a root with or without a StoreId; the other two URLs were each
\* not collected, collected, answered with a non-gzip body, or collected and
\* parsed by an earlier decoder run.
\* DEFAULT_URLS[1]: PriceFull7290803800003-020-202601140446.gz
UrlY020 == Url("publishedprices", Fn("", "PriceFull", <<>>, <<0, 2, 0>>, "d12"))
LblPadded == <<" ", "m", "i", " ", " ", "k", " ">>
ItemPool == { Item(LblPadded, Some(10), Some("c1"), None),
              Item(LblMilk, Some(11), Some("c3"), None),
              Item(LblQty, Some(7), Some("c4"), None),
              Item(<<" ">>, Some(5), Some("c5"), None),
              Item(LblMilk, None, Some("c6"), None),
              Item(LblMilk, Some(5), None, None) }
CatItems(store, items) == Body("catItems", <<31, 139>>, 9, Doc(TRUE, TRUE, store, items))

\* What a run of the curl-based collector leaves for a URL it stored.
CurlPath(url) == Path("yohananof", DateOfStamp(url.fn), Get(ParsePriceFullFilenameFromUrl(url)), url.fn)
CurlRow(url, body) ==
    IF isGzip(body)
    THEN AfterUpload(CHAIN_CURL, ParsePriceFullFilenameFromUrl(url), url, CurlPath(url),
                     sha256(body), FALSE, "Storage upload failed")
    ELSE Row(CHAIN_CURL, ParsePriceFullFilenameFromUrl(url), url, Some(CurlPath(url)), NULL,
             "failed", "Download returned non-gzip content")

\* The ledger rows and objects of a URL in one of the four conditions.
LedgerOf(url, cond, id, t) ==
    CASE cond = "none" -> {}
      [] cond = "downloaded" -> {Stored(CurlRow(url, CatA2), id, t)}
      [] cond = "failed" -> {Stored(CurlRow(url, Html), id, t)}
      [] cond = "parsed" ->
            UpdateStatus(UpdateStoreId({Stored(CurlRow(url, CatInvalid), id, t)}, id,
                                       Some(PadStart3(CatInvalid.doc.store))),
                         id, "parsed", NULL)
ObjectsOf(url, cond) ==
    CASE cond = "downloaded" -> {[path |-> CurlPath(url), body |-> CatA2]}
      [] cond = "parsed" -> {[path |-> CurlPath(url), body |-> CatInvalid]}
      [] OTHER -> {}

\* The tables and the bucket after three collector runs, the first file's
\* body one of B.
Collected(B) ==
    /\ nextId = 4 /\ prices = {} /\ stats = {} /\ now = 0
    /\ coll = [p \in AllProcs |-> IdleRun] /\ dec = IdleDecoder
    /\ runs = 3 /\ aggStreak = 0 /\ label = <<>> /\ canon = None
    /\ faults = MaxFaults
    /\ \E url \in {UrlY009, UrlY16}, body \in B,
          c2 \in {"none", "downloaded", "failed", "parsed"},
          c3 \in {"none", "downloaded", "failed", "parsed"}, first \in BOOLEAN :
         LET other == IF url = UrlY009 THEN UrlY16 ELSE UrlY009
             k == IF first THEN 1 ELSE 3
         IN /\ ledger = {Stored(CurlRow(url, body), 1, At(0, k, 1))}
                           \cup LedgerOf(other, c2, 2, At(0, 2, 1))
                           \cup LedgerOf(UrlY020, c3, 3, At(0, 4 - k, 1))
            /\ bucket = {[path |-> CurlPath(url), body |-> body]}
                           \cup ObjectsOf(other, c2) \cup ObjectsOf(UrlY020, c3)

InitDecode ==
    /\ site = "decode"
    /\ Collected({CatItems(store, items) :
                     store \in {<<>>, <<9>>, <<1, 2, 3, 4>>},
                     items \in UNION {[1..n -> ItemPool] : n \in 1..MaxItems}})

NextDecode ==
    \/ DecoderStart
    \/ DecoderFile

SpecDecode == InitDecode /\ [][NextDecode]_vars

\* The decoder run again and again (a scheduler that keeps starting it) over
\* what the collector has stored: each run that can start does start, and a
\* run in its loop goes on. DecoderFile is enabled exactly while the run is in
\* its loop and every DecoderFile step changes dec, so its weak fairness is
\* that the run is outside its loop again and again.
InitLive ==
    /\ site = "live"
    /\ Collected({GzCorrupt, CatA, CatDup, CatNoRoot, CatNoItems, CatInvalid})

SpecLive ==
    InitLive /\ [][NextDecode]_vars /\ WF_vars(DecoderStart) /\ []<>(dec.pc # "run")

\* The aggregator over a prices table that one decoded catalog has filled,
\* while time passes: the catalog's items carry price update times on both
\* sides of the instants the trailing window starts at.
WindowPool == { Item(LblMilk, Some(10), Some("c1"), Some(0 - 4)),
                Item(LblMilk1l, Some(20), Some("c2"), Some(0 - 3)),
                Item(LblMilk, Some(30), Some("c3"), Some(0 - 1)),
                Item(LblMilkX2, Some(12), Some("c4"), None) }

InitWindow ==
    /\ ledger = {} /\ nextId = 1 /\ bucket = {} /\ stats = {} /\ now = 0
    /\ coll = [p \in AllProcs |-> IdleRun] /\ dec = IdleDecoder
    /\ runs = 2 /\ aggStreak = 0 /\ label = <<>> /\ canon = None
    /\ faults = MaxFaults
    /\ site = "window"
    /\ \E items \in UNION {[1..n -> WindowPool] : n \in 1..MaxItems} :
         prices = WriteBatches({}, BuildRows(items, 1, Some(<<0, 0, 9>>), 1), 1, {}, At(0, 2, 0))

NextWindow ==
    \/ Aggregate
    \/ Tick

SpecWindow == InitWindow /\ [][NextWindow]_vars

\* ------------------------------------------------------------------ claims
Bodies == {Html, GzCorrupt, CatNoRoot, CatNoItems, CatInvalid, CatA, CatA2, CatDup, CatOld}

\* C1: a collector that finds a ledger row with the (chain, file_url) of a
\* candidate URL makes no fetch for that URL and leaves that row as it is.
C1_DedupSkipsFetch ==
    [][\A p \in AllProcs :
         LET r == coll[p]
         IN (r.pc \in {"fetch", "write"} /\ Existing(ledger, r.chain, CurUrl(r)) # {})
            => /\ ~(r.pc = "fetch" /\ coll'[p].pc = "write")
               /\ Existing(ledger', r.chain, CurUrl(r)) = Existing(ledger, r.chain, CurUrl(r))]_vars

\* C2: the ledger holds at most one row per (chain, file_url), whatever runs
\* and retries came before.
C2_UniqueFileUrl ==
    \A a, b \in ledger : (a.chain = b.chain /\ a.file_url = b.file_url) => a = b

\* A row that was parsed (its price rows exist) and that a retry has since
\* written over: it is downloaded again, and it is still the only row of its key.
C2_RetryOverwrote ==
    \E r \in ledger :
        /\ r.status = "downloaded"
        /\ \E x \in prices : x.raw_file_id = r.id
        /\ Cardinality(Existing(ledger, r.chain, r.file_url)) = 1

\* C3: the status of a ledger row changes only from downloaded to parsed or
\* from downloaded to failed.
C3_StatusOnlyForward ==
    [][\A a \in ledger, b \in ledger' :
         (a.id = b.id /\ a.status # b.status)
            => (a.status = "downloaded" /\ b.status \in {"parsed", "failed"})]_vars

\* C4: when the bytes a collector fetched do not start with 1F 8B, the row it
\* leaves for the URL is failed.
C4_NonGzipIsFailed ==
    [][\A p \in AllProcs :
         LET r == coll[p]
         IN (r.pc = "write" /\ r.att.fetched /\ ~r.att.gz)
            => \A x \in Existing(ledger', r.chain, CurUrl(r)) : x.status = "failed"]_vars

\* C5: a row is downloaded only after its upload succeeded, so a downloaded
\* row has an object at its storage_path; after a failed upload the row
\* written is failed with an error and the run's count stays.
C5_DownloadedHasObject ==
    \A r \in ledger :
        r.status = "downloaded"
           => IsSome(r.storage_path) /\ ObjectsAt(bucket, Get(r.storage_path)) # {}
C5_WriteFollowsUpload ==
    \A p \in AllProcs :
        LET r == coll[p]
        IN r.pc = "write"
           => /\ (r.pend.status = "downloaded") = (r.att.up = "ok")
              /\ r.att.up = "error" => (r.pend.status = "failed" /\ r.pend.error # NULL)
C5_UploadFailureStep ==
    \A p \in AllProcs :
        LET r == coll[p]
        IN (r.pc = "write" /\ r.att.up = "error")
           => /\ coll'[p].downloaded = r.downloaded
              /\ \A x \in ledger' \ ledger :
                    (x.chain = r.chain /\ x.file_url = CurUrl(r))
                       => (x.status = "failed" /\ x.error # NULL)
C5_UploadBeforeDownloaded ==
    /\ [](C5_DownloadedHasObject /\ C5_WriteFollowsUpload)
    /\ [][C5_UploadFailureStep]_vars

\* The attempt whose upload failed is in the ledger as failed, with its error.
C5_UploadFailureRecorded ==
    \E r \in ledger :
        /\ r.status = "failed"
        /\ r.error \in {"upload error", "Storage upload failed"}
        /\ \A p \in AllProcs : coll[p].downloaded = 0

\* C6: a failure while one file is handled does not end the run.
C6_FileFailureNeverAborts ==
    [][/\ \A p \in AllProcs : coll[p].pc \in {"fetch", "write"} => coll'[p].pc # "aborted"
       /\ dec.pc = "run" => dec'.pc # "aborted"]_vars

\* The rows of prices that belong to a ledger row.
RowsOfFile(id) == {x \in prices : x.raw_file_id = id}

\* The price rows the decoder collects from the object a ledger row stands for
\* (the object at its storage_path, when its hash is the row's sha256).
CollectedFor(r) ==
    LET objs == IF IsSome(r.storage_path)
                THEN {o \in ObjectsAt(bucket, Get(r.storage_path)) : sha256(o.body) = r.sha256}
                ELSE {}
    IN UNION { {BuildRows(o.body.doc.items, r.id, r.store_id, 1)[k]
                  : k \in 1..Len(BuildRows(o.body.doc.items, r.id, r.store_id, 1))} : o \in objs }

\* C7: a file whose ledger row is parsed has had every batch of its rows
\* written: each row the decoder collected from it is in the prices table.
C7_ParsedMeansEveryBatchWritten ==
    \A r \in ledger :
        r.status = "parsed"
           => \A c \in CollectedFor(r) : \E x \in prices : SameKey(x, c) /\ x.price = c.price

\* C8: a catalog that has items of which none is valid is never marked parsed.
C8_NoValidItemsNeverParsed ==
    \A r \in ledger :
        r.status = "parsed"
           => \A b \in Bodies :
                 (sha256(b) = r.sha256 /\ b.doc.items # <<>>)
                    => BuildRows(b.doc.items, r.id, r.store_id, 1) # <<>>

\* C9: the prices table holds at most one row per (raw_file_id, item_code),
\* and decoding a file whose collected rows are all in the table already
\* leaves the table as it is.
C9_UniquePriceKey == \A a, b \in prices : SameKey(a, b) => a = b
C9_RedecodeStep ==
    (dec.pc = "run" /\ prices' # prices)
       => LET f == dec.files[dec.i]
              r == CHOOSE x \in ledger : x.id = f.id
          IN \/ CollectedFor(r) = {}
             \/ \E c \in CollectedFor(r) :
                   \A x \in prices : ~(SameKey(x, c) /\ WithFetchedAt(c, x.fetched_at) = x)
C9_DecodeIdempotent == []C9_UniquePriceKey /\ [][C9_RedecodeStep]_vars

\* A file decoded twice from the same object: a later collector run wrote its
\* ledger row again after its price rows were inserted, it is parsed again,
\* and its price rows are the rows collected from the object, no more.
C9_DecodedTwice ==
    \E r \in ledger :
        /\ r.status = "parsed"
        /\ RowsOfFile(r.id) # {}
        /\ \A x \in RowsOfFile(r.id) : Before(x.fetched_at, r.fetched_at)
        /\ \A c \in CollectedFor(r) : \E x \in prices : SameKey(x, c) /\ x.price = c.price
        /\ \A x \in RowsOfFile(r.id) : \E c \in CollectedFor(r) : SameKey(x, c) /\ x.price = c.price

\* C10: an aggregator run that follows an aggregator run, the prices table and
\* the clock unchanged between them, leaves product_stats_daily as it is, and
\* the table holds at most one row per (day, chain, canonical_key).
C10_UniqueStatKey == \A x, y \in stats : StatKey(x) = StatKey(y) => x = y
C10_SecondRunStep == aggStreak >= 1 => stats' = stats
C10_AggregateIdempotent == []C10_UniqueStatKey /\ [][C10_SecondRunStep]_vars

\* Two aggregator runs in a row over a table that has groups to aggregate.
C10_AggregatedTwice == aggStreak = 2 /\ stats # {} /\ Aggregated(prices, now) # {}

\* The price rows the aggregator's statement selects at the present clock.
InWindowRows == {r \in prices : InWindow(r, now)}

\* C11: once the aggregator has run over the present prices table and clock,
\* every (day, chain, canonical_key) group of in-window rows with a canonical
\* key has its row in product_stats_daily, with sample_count the number of
\* rows of the group, min_price and max_price their least and greatest price,
\* and avg_price (in hundredths) their mean rounded to the nearest hundredth,
\* between min and max; no row of the table stands for a null canonical key.
C11_StatsMatchGroups ==
    aggStreak >= 1 =>
       /\ \A k \in {GroupKey(r) : r \in InWindowRows} :
            LET G == {r \in InWindowRows : GroupKey(r) = k}
                n == Cardinality(G)
                sum == SumPrices(G)
            IN \E x \in stats :
                  /\ StatKey(x) = k
                  /\ x.sample_count = n
                  /\ \A r \in G : x.min_price <= r.price /\ r.price <= x.max_price
                  /\ \E r \in G : r.price = x.min_price
                  /\ \E r \in G : r.price = x.max_price
                  /\ 2 * (100 * sum - x.avg_price * n) <= n
                  /\ 2 * (x.avg_price * n - 100 * sum) < n
                  /\ 100 * x.min_price <= x.avg_price /\ x.avg_price <= 100 * x.max_price
       /\ \A x \in stats : \E r \in prices : r.canonical_key = Some(x.canonical_key)

\* The spec's example: prices 10, 12, 11 of one group aggregated to 11.00, 10,
\* 12, 3, beside a price row whose canonical key is null.
C11_ExampleAggregated ==
    /\ aggStreak >= 1
    /\ \E x \in stats : x.sample_count = 3 /\ x.avg_price = 1100
                          /\ x.min_price = 10 /\ x.max_price = 12
    /\ \E r \in prices : r.canonical_key = None
    /\ \E r \in prices : IsSome(r.canonical_key) /\ ~InWindow(r, now)

\* C12: an attempt for which no store id is resolved is recorded skipped, with
\* store_id and storage_path null and an error, nothing is uploaded for it,
\* and the run goes on: in the fetch-based collectors after the names the
\* response offers, in the curl-based collector after the name in the URL.
C12_NoStoreIdIsSkipped ==
    [][\A p \in AllProcs :
          LET r == coll[p]
              q == coll'[p]
          IN /\ (r.pc = "fetch" /\ q # r /\ r.kind = "curl"
                   /\ ~IsSome(ParsePriceFullFilenameFromUrl(CurUrl(r))))
                  => (q.pc = "write" /\ q.pend.status = "skipped")
             /\ (r.pc = "fetch" /\ q.pc = "write" /\ q.att.fetched /\ ~IsSome(q.pend.store_id))
                  => /\ q.pend.status = "skipped"
                     /\ q.pend.storage_path = None
                     /\ q.pend.error # NULL
                     /\ bucket' = bucket
             /\ (r.pc = "write" /\ q # r /\ r.pend.status = "skipped")
                  => /\ q.pc # "aborted"
                     /\ \A x \in Existing(ledger', r.chain, CurUrl(r)) \ ledger :
                           x.status = "skipped" /\ x.store_id = None]_vars

\* The file names of the model.
FileNames == {FnY009, FnY16, FnYLead, FnS001, FnSSub, FnSNoStore}

\* C13: the store id resolved from a file name is three digits or no match,
\* and every store_id a collector writes to raw_files is three digits.
C13_StoreIdThreeDigits ==
    /\ \A fn \in FileNames, chain \in Sites :
          LET id == ExtractStoreId(chain, fn) IN IsSome(id) => Len(Get(id)) = 3
    /\ \A r \in ledger : IsSome(r.store_id) => Len(Get(r.store_id)) = 3

\* C14: what normalizeCanonical returns is a fixed point of it:
\* normalizeCanonical(normalizeCanonical(x)) = normalizeCanonical(x).
C14_NormalizeIdempotent ==
    IsSome(canon) => normalizeCanonical(Get(canon)) = Get(canon)

\* The objects uploaded for a URL: under its own file name or the name the
\* server declared for it.
ObjectsFor(chain, url) ==
    {o \in bucket : o.path.chain = chain
                      /\ (o.path.fn = url.fn \/ Some(o.path.fn) \in DeclaredNames(url))}

\* C15: when two runs of a collector that raced on the same URLs have both
\* ended, each URL they wrote has exactly one ledger record, and that record
\* is downloaded exactly when an object is stored for the URL.
C15_RaceLeavesAgreeingRecord ==
    (\A p \in AllProcs : coll[p].pc \in {"done", "aborted"})
       => \A r \in ledger :
             /\ Cardinality(Existing(ledger, r.chain, r.file_url)) = 1
             /\ r.status = "downloaded" <=> ObjectsFor(r.chain, r.file_url) # {}

\* C16: a run never counts more downloads than maxDownloads, and a run that
\* returns with fewer has attempted every URL it discovered: attempts that end
\* failed or skipped, and URLs passed over by the dedup, use up none of the cap.
C16_CapCountsDownloads ==
    [][\A p \in AllProcs :
          LET r == coll[p]
              q == coll'[p]
          IN (q # r /\ ~Stopped(r))
                => /\ q.downloaded <= r.maxDownloads
                   /\ (q.pc = "done" /\ q.downloaded < r.maxDownloads)
                         => IF r.kind = "curl" THEN r.i >= Len(r.listing[1])
                            ELSE r.pc = "loop" => r.i > Len(r.links)]_vars

\* C17: a run that was given a non-empty list of URLs makes no discovery and
\* attempts the given URLs that are catalog files, those and no others.
C17_SeedsBypassDiscovery ==
    \A p \in AllProcs :
       LET r == coll[p]
       IN (~Stopped(r) /\ r.seeds # <<>>)
             => /\ ~r.discovery
                /\ r.links = SelectSeq(r.seeds, LAMBDA u : u.fn.kind = "PriceFull")

\* C18: nothing that does not begin with the gzip signature is uploaded, and
\* no row is recorded downloaded for such bytes.
C18_OnlyGzipStored ==
    /\ \A o \in bucket : isGzip(o.body)
    /\ \A r \in ledger :
          r.status = "downloaded" => \A b \in Bodies : sha256(b) = r.sha256 => isGzip(b)

\* C19: a ledger row written again keeps its id: ids are not shared, and
\* every price row's raw_file_id is the id of a ledger row of its chain.
C19_PriceRowsKeepTheirFile ==
    /\ \A a, b \in ledger : a.id = b.id => a = b
    /\ \A x \in prices : \E r \in ledger : r.id = x.raw_file_id /\ r.chain = x.chain

\* Price rows of a file whose ledger row was written again after they were inserted.
C19_RowRewrittenAfterDecode ==
    \E r \in ledger, x \in prices :
        x.raw_file_id = r.id /\ Before(x.fetched_at, r.fetched_at)

\* C20: a failed or skipped row has an error and a downloaded or parsed row
\* has none; and when a collector is done with a URL it set out to fetch, the
\* ledger has a row for it in status downloaded, failed or skipped.
C20_ErrorMatchesStatus ==
    \A r \in ledger :
       /\ r.status \in {"failed", "skipped"} => r.error # NULL
       /\ r.status \in {"downloaded", "parsed"} => r.error = NULL
C20_AttemptStep ==
    \A p \in AllProcs :
       LET r == coll[p]
           q == coll'[p]
       IN (r.pc \in {"fetch", "write"} /\ q # r /\ q.pc # "write"
             /\ (r.kind = "curl" => IsSome(ParsePriceFullFilenameFromUrl(CurUrl(r)))))
            => \E x \in Existing(ledger', r.chain, CurUrl(r)) :
                  x.status \in {"downloaded", "failed", "skipped"}
C20_EveryOutcomeRecorded == []C20_ErrorMatchesStatus /\ [][C20_AttemptStep]_vars

\* An item that meets the name, price and item-code requirements.
ValidItem(it) ==
    /\ \E i \in 1..Len(it.name) : ~IsSpace(it.name[i])
    /\ IsSome(it.price)
    /\ IsSome(it.code)

\* The catalog the decoder is about to read for the file it stands at.
CurrentDoc == (CHOOSE o \in bucket : o.path = Get(dec.files[dec.i].storage_path)).body.doc

\* C21: every price row has a non-empty item_name without leading, trailing
\* or repeated white space, a price, a non-empty item_code and a
\* canonical_key that is null or non-empty; and a catalog with items that
\* fail the requirements is parsed all the same, with a row for each of its
\* valid items and for no other.
C21_RowsWellFormed ==
    \A x \in prices :
       /\ x.item_name # <<>>
       /\ ~IsSpace(x.item_name[1]) /\ ~IsSpace(x.item_name[Len(x.item_name)])
       /\ \A i \in 1..(Len(x.item_name) - 1) : ~(IsSpace(x.item_name[i]) /\ IsSpace(x.item_name[i + 1]))
       /\ x.price \in Int
       /\ x.item_code # ""
       /\ x.canonical_key = None \/ (IsSome(x.canonical_key) /\ Get(x.canonical_key) # <<>>)
C21_ItemStep ==
    (/\ dec.pc = "run"
     /\ \E o \in bucket : o.path = Get(dec.files[dec.i].storage_path)
     /\ CurrentDoc.inflates /\ CurrentDoc.root /\ CurrentDoc.items # <<>>
     /\ \A i, j \in 1..Len(CurrentDoc.items) :
           (i < j /\ ValidItem(CurrentDoc.items[i]) /\ ValidItem(CurrentDoc.items[j]))
              => CurrentDoc.items[i].code # CurrentDoc.items[j].code)
       => LET id == dec.files[dec.i].id
              items == CurrentDoc.items
          IN /\ \A r \in ledger' : r.id = id => r.status = "parsed"
             /\ \A k \in 1..Len(items) :
                   ValidItem(items[k])
                      => \E x \in prices' : /\ x.raw_file_id = id
                                            /\ x.item_code = Get(items[k].code)
                                            /\ x.price = Get(items[k].price)
             /\ \A x \in prices' \ prices :
                   \E k \in 1..Len(items) : /\ ValidItem(items[k])
                                            /\ x.item_code = Get(items[k].code)
C21_InvalidItemsDropped == []C21_RowsWellFormed /\ [][C21_ItemStep]_vars

\* A parsed file whose catalog had an item that fails a requirement beside a
\* valid one, and the valid item's row.
C21_MixedCatalogParsed ==
    \E r \in ledger, o \in bucket :
        /\ r.status = "parsed"
        /\ o.path = Get(r.storage_path)
        /\ \E i, j \in 1..Len(o.body.doc.items) :
              /\ ~ValidItem(o.body.doc.items[i])
              /\ ValidItem(o.body.doc.items[j])
              /\ \E x \in prices : x.raw_file_id = r.id /\ x.item_code = Get(o.body.doc.items[j].code)

\* A digit string with zeros put before it up to three digits.
ZeroPadded(d) ==
    CASE Len(d) = 1 -> <<0, 0>> \o d
      [] Len(d) = 2 -> <<0>> \o d
      [] OTHER -> d

\* C22: the store id of a file's price rows, which the decoder also writes to
\* the file's ledger row, is the root's StoreId when the catalog has one and
\* the ledger's store_id otherwise, zero-padded to three digits; with neither,
\* the row is failed, no price row is written and its store_id stays.
C22_StoreIdStep ==
    (/\ dec.pc = "run"
     /\ \E o \in bucket : o.path = Get(dec.files[dec.i].storage_path)
     /\ CurrentDoc.inflates /\ CurrentDoc.root)
       => LET f == dec.files[dec.i]
              old == CHOOSE r \in ledger : r.id = f.id
              new == CHOOSE r \in ledger' : r.id = f.id
              resolved == IF CurrentDoc.store # <<>> THEN Some(ZeroPadded(CurrentDoc.store))
                          ELSE IF IsSome(f.store_id) THEN Some(ZeroPadded(Get(f.store_id)))
                          ELSE None
          IN IF IsSome(resolved)
             THEN /\ new.store_id = resolved
                  /\ \A x \in prices' \ prices : x.raw_file_id = f.id /\ x.store_id = resolved
             ELSE /\ new.status = "failed" /\ new.error # NULL
                  /\ new.store_id = old.store_id
                  /\ prices' = prices
C22_LedgerStoreIdUsed ==
    \E r \in ledger, o \in bucket, x \in prices :
        /\ o.path = Get(r.storage_path) /\ x.raw_file_id = r.id
        /\ o.body.doc.store = <<>>
        /\ r.file_url = UrlY16
        /\ x.store_id = Some(<<0, 1, 6>>) /\ r.store_id = Some(<<0, 1, 6>>)

\* The ledger row a selected file stands for.
RowOf(f) == CHOOSE r \in ledger : r.id = f.id

\* C23: a decoder run selects at most LIMIT rows, all of them downloaded, of
\* the decoder's chain and with a PriceFull storage path, the most recently
\* fetched first and none older than a downloaded row it leaves out; and a
\* decoder step changes no ledger row but the downloaded row of the file it
\* stands at.
C23_Selection ==
    dec.pc = "run"
       => /\ Len(dec.files) <= LIMIT
          /\ \A i \in dec.i..Len(dec.files) :
                /\ RowOf(dec.files[i]).status = "downloaded"
                /\ RowOf(dec.files[i]).chain = CHAIN
                /\ IsSome(dec.files[i].storage_path)
                /\ Get(dec.files[i].storage_path).fn.kind = "PriceFull"
          /\ \A i, j \in 1..Len(dec.files) :
                i < j => Before(RowOf(dec.files[j]).fetched_at, RowOf(dec.files[i]).fetched_at)
          /\ \A r \in ledger :
                (r.status = "downloaded" /\ \A i \in 1..Len(dec.files) : dec.files[i].id # r.id)
                   => /\ Len(dec.files) = LIMIT
                      /\ \A i \in 1..Len(dec.files) :
                            Before(r.fetched_at, RowOf(dec.files[i]).fetched_at)
C23_FrameStep ==
    (dec' # dec)
       => \A r \in ledger :
             (r \notin ledger')
                => /\ dec.pc = "run"
                   /\ r.id = dec.files[dec.i].id
                   /\ r.status = "downloaded"
C23_DecoderTouchesOnlySelected == []C23_Selection /\ [][C23_FrameStep]_vars

\* A run whose selection was cut at LIMIT: a downloaded row is left out.
C23_SelectionCut ==
    /\ dec.pc = "run"
    /\ Len(dec.files) = LIMIT
    /\ \E r \in ledger : r.status = "downloaded" /\ \A i \in 1..Len(dec.files) : dec.files[i].id # r.id

\* The links of listing page n that are PriceFull files (an empty page past the end).
PriceFullLinks(listing, n) ==
    IF n <= Len(listing)
    THEN SelectSeq(listing[n], LAMBDA u : u.fn.lead = "" /\ u.fn.kind = "PriceFull")
    ELSE <<>>

\* C24: the Shufersal run is never past page maxPages and holds only PriceFull
\* links; a step at the head of the page loop either takes the next page,
\* within maxPages and with its PriceFull links, or ends the run, which it
\* does when maxPages pages are done or the next page has no such link.
C24_PagesWithinCeiling ==
    \A p \in AllProcs :
       LET r == coll[p]
       IN (r.kind = "shufersal" /\ ~Stopped(r))
             => /\ r.page <= r.maxPages
                /\ \A i \in 1..Len(r.links) : r.links[i].fn.kind = "PriceFull"
                /\ r.pc \in {"fetch", "write"} => CurUrl(r).fn.kind = "PriceFull"
C24_PageStep ==
    \A p \in AllProcs :
       LET r == coll[p]
           q == coll'[p]
       IN (r.kind = "shufersal" /\ r.pc = "page" /\ q # r)
             => IF r.page + 1 > r.maxPages \/ PriceFullLinks(r.listing, r.page + 1) = <<>>
                THEN Stopped(q)
                ELSE /\ q.pc = "loop"
                     /\ q.page = r.page + 1
                     /\ q.links = PriceFullLinks(r.listing, r.page + 1)
C25_NeverOverwrites ==
    [][\A o \in bucket : o \in bucket']_vars

\* C26: a ledger row that is downloaded does not stay downloaded for ever
\* while decoder runs keep being started.
C26_DownloadedLeaves ==
    \A id \in 1..3 :
       (\E r \in ledger : r.id = id /\ r.status = "downloaded")
          ~> ~(\E r \in ledger : r.id = id /\ r.status = "downloaded")

\* C27: every row of product_stats_daily counts, and takes its minimum,
\* maximum and mean over, all the price rows of its day, chain and
\* canonical key.
C27_StatsCoverWholeDay ==
    \A x \in stats :
       LET all == {r \in prices : IsSome(r.canonical_key) /\ GroupKey(r) = StatKey(x)}
       IN /\ x.sample_count = Cardinality(all)
          /\ \A r \in all : x.min_price <= r.price /\ r.price <= x.max_price
          /\ x.avg_price = RoundAvg(SumPrices(all), Cardinality(all))

\* C28: a step that raises a run's downloaded count writes, in that step, the
\* downloaded ledger row of the URL the run stands at.
C28_CountMatchesWrites ==
    [][\A p \in AllProcs :
         LET r == coll[p]
             q == coll'[p]
         IN (r.pc = "write" /\ q.downloaded > r.downloaded)
               => \E x \in ledger' \ ledger :
                     /\ x.chain = r.chain /\ x.file_url = CurUrl(r)
                     /\ x.status = "downloaded"]_vars

\* C29: a downloaded row written by a Yohananof collector carries the chain
\* the decoder filters on and a PriceFull storage path.
C29_DownloadedIsSelectable ==
    \A r \in ledger :
       (r.status = "downloaded" /\ r.chain \in {CHAIN_FETCH, CHAIN_CURL})
          => /\ r.chain = CHAIN
             /\ IsSome(r.storage_path)
             /\ Get(r.storage_path).fn.kind = "PriceFull"

====
